---- MODULE Spec2Model ----
(***************************************************************************)
(* A model of the NCBI GEO scraper: the Tabular Sink (save_to_excel), the  *)
(* Sample Parser (process_xml_file), the Archive Retriever                 *)
(* (FileHandler.download_and_extract_from_url) and the Search Crawler      *)
(* (scrape_geo).                                                           *)
(*                                                                         *)
(* Four specifications share the variables:                                *)
(*   SpecSink       repeated calls of save_to_excel on a directory         *)
(*   SpecXml        process_xml_file on bounded MINiML documents           *)
(*   SpecRetriever  repeated calls of download_and_extract_from_url        *)
(*   Spec           scrape_geo, calling the retriever, parser and sink     *)
(***************************************************************************)
EXTENDS Integers, Sequences, FiniteSets, TLC

VARIABLES
    files,      \* data/final_result_<i>.xlsx: index -> frame, or NoFile
    sinkLog,    \* the last save_to_excel call: target index, data, files before
    calls,      \* number of save_to_excel calls made (SpecSink)
    doc,        \* the structured file handed to process_xml_file (SpecXml)
    parsed,     \* what process_xml_file returned for doc (SpecXml)
    pc,         \* scrape_geo: "listing", "links", "returned", "raised"
    kw,         \* scrape_geo: index of the keyword being crawled
    links,      \* scrape_geo: result links of the current listing
    li,         \* scrape_geo: index of the next link to visit
    results,    \* scrape_geo: the accumulating result sequence
    xmlDir,     \* data/xml: file name -> content, or NoFile
    scratch,    \* data/: the accessions whose <acc>_family.xml.tgz exists
    call,       \* the last call of download_and_extract_from_url
    listed,     \* scrape_geo: result links listed so far
    last        \* scrape_geo: what the last visited accession did

vars == <<files, sinkLog, calls, doc, parsed, pc, kw, links, li, results,
          xmlDir, scratch, call, listed, last>>

sinkVars    == <<files, sinkLog, calls>>
xmlVars     == <<doc, parsed>>
diskVars    == <<xmlDir, scratch, call>>
crawlVars   == <<pc, kw, links, li, results, listed, last>>

\* Python's None and a pandas NaN cell.
Null   == "<None>"

\* A path of the output directory at which no workbook exists.
NoFile == [present |-> FALSE, cols |-> {}, rows |-> <<>>]

(***************************************************************************)
(* Bounds of the model.                                                    *)
(***************************************************************************)
MaxFiles     == 3   \* numbered output files the directory may hold
MaxFlushRows == 1   \* rows of one save_to_excel call (SpecSink)
MaxCalls     == 3   \* save_to_excel calls in one behaviour (SpecSink)
MaxNodes     == 3   \* elements below the root of a structured file (SpecXml)
MaxDepth     == 3   \* nesting depth below the root (SpecXml)
MaxVisits    == 3   \* result links the search lists over one crawl (Spec)
MaxMembers   == 2   \* members of one archive (SpecRetriever)

\* config.py: the configured keywords, in the order the mapping is iterated.
GEO_SEARCH_URLS == <<"single-cell", "metastatic cancer", "tumor microenvironment">>

(***************************************************************************)
(* Tabular Sink: utils/excel_writer.py                                     *)
(***************************************************************************)

\* The declared columns. A frame's columns are kept as a set: no claim reads
\* their order.
columns ==
    { "Dataset URL", "Title", "Summary", "Experiment type", "Overall design",
      "Contributor(s)", "Submission date", "Last update date", "Contact name",
      "Organization name", "Street address", "City", "ZIP/Postal code",
      "Country", "Platforms", "Samples", "Accession Number",
      "Sample Number (ID)", "Organism", "Tissue", "Cell Type" }

\* 50 MB in bytes.
SizeLimit == 50 * 1024 * 1024

\* The spreadsheet encoder is outside the program; os.path.getsize of a file
\* is modelled as growing by a fixed weight per data row over the size of a
\* header-only workbook. One model row stands for a batch of real rows.
EmptyFileBytes == 5 * 1024
RowBytes       == 20 * 1024 * 1024

\* A frame: its columns, and its rows, each a function columns -> value.
EmptyFrame(cols) == [present |-> TRUE, cols |-> cols, rows |-> <<>>]

Exists(fs, i) == i \in DOMAIN fs /\ fs[i].present

GetSize(fs, i) == EmptyFileBytes + Len(fs[i].rows) * RowBytes

\* A scan that takes the first index with no file, whatever the sizes.
RECURSIVE ScanFirstFree(_, _)
ScanFirstFree(fs, i) ==
    IF Exists(fs, i) THEN ScanFirstFree(fs, i + 1) ELSE i

\* A scan that never looks at the size: the first candidate is always taken.
ScanNoSize(fs, i) == i

\* while os.path.exists(output_file) and getsize(output_file) > 50 MB
RECURSIVE ScanFrom(_, _)
ScanFrom(fs, i) ==
    IF Exists(fs, i) /\ GetSize(fs, i) > SizeLimit
    THEN ScanFrom(fs, i + 1)
    ELSE i

\* pd.DataFrame(data): the columns are the keys of all rows, a row's missing
\* keys are NaN.
Widen(row, cols) ==
    [c \in cols |-> IF c \in DOMAIN row THEN row[c] ELSE Null]

KeysOf(data) == UNION { DOMAIN data[k] : k \in 1..Len(data) }

DataFrame(data) ==
    [present |-> TRUE, cols |-> KeysOf(data),
     rows |-> [k \in 1..Len(data) |-> Widen(data[k], KeysOf(data))]]

\* pd.concat([df, new], ignore_index=True): the union of the columns.
Concat(df, new) ==
    LET cols == df.cols \cup new.cols
    IN  [present |-> TRUE, cols |-> cols,
         rows |-> [k \in 1..Len(df.rows) |-> Widen(df.rows[k], cols)]
                  \o [k \in 1..Len(new.rows) |-> Widen(new.rows[k], cols)]]

\* A sink that writes the concatenated frame as it is.
NoBackfill(df) == df

\* for column in columns: if column not in df.columns: df[column] = None
Backfill(df) ==
    [present |-> TRUE, cols |-> df.cols \cup columns,
     rows |-> [k \in 1..Len(df.rows) |-> Widen(df.rows[k], df.cols \cup columns)]]

\* The file read back at line 34: created with the declared header when absent.
Loaded(fs, i) == IF Exists(fs, i) THEN fs[i] ELSE EmptyFrame(columns)

\* save_to_excel(data): the directory after the call.
SaveToExcel(fs, data) ==
    LET i == ScanFrom(fs, 1)
    IN  [fs EXCEPT ![i] = Backfill(Concat(Loaded(fs, i), DataFrame(data)))]

SaveTarget(fs) == ScanFrom(fs, 1)

\* Rows a caller may hand to the sink: a crawler row (with the crawler's own
\* "Keyword" and "Cell line" keys), a row of two declared columns, and a row
\* with no declared column at all.
SinkRows ==
    { [c \in {"Keyword", "Title", "Accession Number", "Sample Number (ID)",
              "Tissue", "Cell line"} |-> "v"],
      [c \in {"Dataset URL", "Title"} |-> "v"],
      [c \in {"Keyword"} |-> "v"] }

FlushData == UNION { [1..n -> SinkRows] : n \in 0..MaxFlushRows }

\* The indices of the output directory the model tracks: scrape_geo may
\* open one more file with every accession it visits.
NoFiles == [i \in 1..(MaxFiles + MaxVisits) |-> NoFile]

\* A frame of n rows whose columns are cols.
FrameOf(cols, n) ==
    [present |-> TRUE, cols |-> cols, rows |-> [k \in 1..n |-> [c \in cols |-> "v"]]]

\* Directories the sink may find: empty; a first file left by another writer
\* with only part of the header; a first file already past the threshold; a
\* second file with no first one.
SinkDirs ==
    { NoFiles,
      [NoFiles EXCEPT ![1] = FrameOf({"Title", "Summary"}, 1)],
      [NoFiles EXCEPT ![1] = FrameOf(columns, 3)],
      [NoFiles EXCEPT ![2] = FrameOf(columns, 1)] }

NoSinkLog(fs) == [index |-> 0, data |-> <<>>, before |-> fs]

\* One call of save_to_excel(data).
Save(data) ==
    /\ calls < MaxCalls
    /\ SaveTarget(files) <= MaxFiles
    /\ files' = SaveToExcel(files, data)
    /\ sinkLog' = [index |-> SaveTarget(files), data |-> data, before |-> files]
    /\ calls' = calls + 1

(***************************************************************************)
(* Sample Parser: scrapers/geo_scraper.py, process_xml_file                *)
(***************************************************************************)

\* A structured file is its elements in document order, each with its depth
\* below the root (element 1, depth 0). An element's descendants are the
\* elements that follow it while the depth stays greater than its own.
\* All elements are in the MINiML namespace.
XmlFile(nodes) == [exists |-> TRUE, wellFormed |-> TRUE, nodes |-> nodes]
Malformed      == [exists |-> TRUE, wellFormed |-> FALSE, nodes |-> <<>>]
MissingFile    == [exists |-> FALSE, wellFormed |-> FALSE, nodes |-> <<>>]

Element(tag, iid, ctag, text) ==
    [tag |-> tag, iid |-> iid, ctag |-> ctag, text |-> text]

RootElement == Element("MINiML", Null, Null, Null)

ElementKinds ==
    { Element("Sample", "GSM1", Null, Null),
      Element("Sample", "GSM2", Null, Null),
      Element("Sample", Null, Null, Null),
      Element("Characteristics", Null, "tissue", " liver "),
      Element("Characteristics", Null, "Tissue", Null),
      Element("Characteristics", Null, "cell line", "HeLa"),
      Element("Channel", Null, Null, Null) }

Placed(e, depth) == [el |-> e, depth |-> depth]

WellNested(d) ==
    \A k \in 2..Len(d) : d[k].depth <= d[k - 1].depth + 1

Documents ==
    { XmlFile(<<Placed(RootElement, 0)>> \o body) :
        body \in { b \in UNION { [1..n -> { Placed(e, h) : e \in ElementKinds,
                                                           h \in 1..MaxDepth }]
                                 : n \in 0..MaxNodes } :
                     WellNested(<<Placed(RootElement, 0)>> \o b) } }

\* str.lower() and str.strip() on the attribute values and texts in use.
Lower(s) ==
    CASE s = "Tissue" -> "tissue"
      [] s = "Cell Line" -> "cell line"
      [] OTHER -> s

Strip(s) ==
    CASE s = " liver " -> "liver"
      [] s = "  " -> ""
      [] OTHER -> s

Descendants(d, i) ==
    { j \in (i + 1)..Len(d) : \A m \in (i + 1)..j : d[m].depth > d[i].depth }

\* findall("ns:X"): the children only.
FindChildren(d, i, tag) ==
    { j \in Descendants(d, i) : d[j].el.tag = tag /\ d[j].depth = d[i].depth + 1 }

\* findall(".//ns:X") on element i: every descendant with that tag; the
\* element itself is not among them.
FindAll(d, i, tag) ==
    { j \in Descendants(d, i) : d[j].el.tag = tag }

\* A set of indices as the sequence in document order.
RECURSIVE InOrder(_)
InOrder(S) ==
    IF S = {} THEN <<>>
    ELSE LET m == CHOOSE x \in S : \A y \in S : x <= y
         IN  <<m>> \o InOrder(S \ {m})

\* element.get(name, default)
GetAttr(v, default) == IF v = Null THEN default ELSE v

\* characteristic.text.strip() if characteristic.text else "Not Available"
TextOrNotAvailable(t) ==
    IF t = Null \/ t = "" THEN "Not Available" ELSE Strip(t)

\* The loop of lines 105-110 for one field: the field starts as None and
\* every matching Characteristics overwrites it, so the last one stands.
Characteristic(d, i, name) ==
    LET hits == { j \in FindAll(d, i, "Characteristics") :
                    Lower(GetAttr(d[j].el.ctag, "")) = name }
    IN  IF hits = {} THEN Null
        ELSE TextOrNotAvailable(d[CHOOSE j \in hits : \A h \in hits : h <= j].el.text)

SampleData(d, i) ==
    ("Sample Number (ID)" :> GetAttr(d[i].el.iid, "Not Available"))
    @@ ("Tissue" :> Characteristic(d, i, "tissue"))
    @@ ("Cell line" :> Characteristic(d, i, "cell line"))

\* The Sample elements the parser visits, in document order.
SampleElements(d) == InOrder(FindAll(d, 1, "Sample"))

\* The try block, lines 89-112: ET.parse raises FileNotFoundError on a missing
\* file and ParseError on one that is not well-formed, before any record is
\* appended; otherwise one record is appended per Sample element.
ParseTry(f) ==
    IF ~f.exists THEN [out |-> <<>>, exc |-> "FileNotFoundError"]
    ELSE IF ~f.wellFormed THEN [out |-> <<>>, exc |-> "ParseError"]
    ELSE [out |-> [k \in 1..Len(SampleElements(f.nodes)) |->
                     SampleData(f.nodes, SampleElements(f.nodes)[k])],
          exc |-> "none"]

\* A handler for the errors of the XML parser only.
ExceptParseErrorOnly(o) ==
    IF o.exc = "ParseError" THEN [o EXCEPT !.exc = "none"] ELSE o

\* except Exception as e: print(...), lines 114-115; the records appended so
\* far are kept.
ParseExcept(o) ==
    IF o.exc # "none" THEN [o EXCEPT !.exc = "none"] ELSE o

\* The call as a whole: what it returns and the exception that leaves it.
ParseOutcome(f) == ParseExcept(ParseTry(f))

\* process_xml_file: the list returned at line 117.
process_xml_file(f) == ParseOutcome(f).out

\* process_xml_file applied to the file at hand.
NotParsed == [done |-> FALSE, out |-> <<>>, exc |-> "none"]

Parse ==
    /\ ~parsed.done
    /\ parsed' = [done |-> TRUE, out |-> ParseOutcome(doc).out,
                  exc |-> ParseOutcome(doc).exc]
    /\ UNCHANGED doc

(***************************************************************************)
(* Archive Retriever: utils/file_handler.py, download_and_extract_from_url *)
(***************************************************************************)

\* Accession numbers the search results may carry, beside the "Unknown" of a
\* link whose acc parameter is blank.
Accessions == {"GSE123"}

\* 30 MB in bytes.
MaxArchiveBytes == 30 * 1024 * 1024

\* f"{accession_number}_family.xml": the name of the expected extracted file.
FamilyXml(acc) ==
    CASE acc = "GSE123" -> "GSE123_family.xml"
      [] OTHER -> "Unknown_family.xml"

\* The file names of data/xml the model tracks.
XmlNames == { FamilyXml(a) : a \in Accessions \cup {"Unknown"} } \cup {"other.xml"}

\* Contents a structured file may have: a family file of two samples, one of
\* no sample, and one that is not well-formed.
TwoSamples ==
    XmlFile(<< Placed(RootElement, 0),
               Placed(Element("Sample", "GSM1", Null, Null), 1),
               Placed(Element("Characteristics", Null, "tissue", " liver "), 2),
               Placed(Element("Sample", "GSM2", Null, Null), 1) >>)

NoSamples == XmlFile(<< Placed(RootElement, 0) >>)

\* A file of data/xml is held by the name of its content; "" is no file.
Payloads == {"two samples", "no sample", "malformed"}

Absent == ""

Content(p) ==
    CASE p = "two samples" -> TwoSamples
      [] p = "no sample" -> NoSamples
      [] p = "malformed" -> Malformed
      [] OTHER -> MissingFile

EmptyXmlDir == [n \in XmlNames |-> Absent]

\* A member of an archive: its path inside the archive and its content.
Member(dir, base, data) == [dir |-> dir, base |-> base, data |-> data]

\* member.name.endswith(".xml")
EndsWithXml(m) == m.base \in XmlNames

\* os.path.basename(member.name)
Basename(m) == m.base

\* What the server may hold for an accession: the family file under a
\* directory, a structured file of another name, a file that is no .xml.
MembersFor(acc) ==
    { Member(acc, FamilyXml(acc), d) : d \in Payloads }
    \cup { Member("", "other.xml", "two samples"), Member("", "README.txt", "malformed") }

\* An archive tarfile.open cannot read.
Unreadable == [readable |-> FALSE, members |-> <<>>]

ArchivesUpTo(acc, len) ==
    { Unreadable }
    \cup { [readable |-> TRUE, members |-> ms] :
             ms \in UNION { [1..n -> MembersFor(acc)] : n \in 0..len } }

ArchivesFor(acc) == ArchivesUpTo(acc, MaxMembers)

\* The answer to requests.head: a failure, or the advertised content-length,
\* at the ceiling and one byte past it.
ProbeFailed == [ok |-> FALSE, size |-> 0]

ProbeSize(n) == [ok |-> TRUE, size |-> n]

\* requests.get and the streaming to disk: refused before any byte is written,
\* broken after the scratch file was opened, or complete.
Downloads == {"refused", "broken", "ok"}

RetrieverEnv(probe, download, archive) ==
    [probe |-> probe, download |-> download, archive |-> archive]

\* What the servers may answer to one call. An answer the call never asks for
\* (the download after a failed probe, the archive after a failed download)
\* is given once, not in every combination.
EnvsOver(archives) ==
    { RetrieverEnv(ProbeFailed, "refused", Unreadable),
      RetrieverEnv(ProbeSize(MaxArchiveBytes + 1), "ok", Unreadable),
      RetrieverEnv(ProbeSize(MaxArchiveBytes), "refused", Unreadable),
      RetrieverEnv(ProbeSize(MaxArchiveBytes), "broken", Unreadable) }
    \cup { RetrieverEnv(ProbeSize(MaxArchiveBytes), "ok", a) : a \in archives }

RetrieverEnvs(acc) == EnvsOver(ArchivesFor(acc))

\* The outcome of a stretch of the call: the value returned (Null: None), the
\* exception in flight ("none": none), the two directories, the requests
\* issued and whether the scratch archive was ever created.
Outcome(ret, exc, dir, scr, reqs, created) ==
    [ret |-> ret, exc |-> exc, xmlDir |-> dir, scratch |-> scr,
     reqs |-> reqs, created |-> created]

\* The first member of the archive whose name ends in .xml, the member the
\* loop of lines 106-107 stops at; NoMember when the archive has none.
NoMember == Member("", "", "")

FirstXml(ms) ==
    LET hits == { k \in 1..Len(ms) : EndsWithXml(ms[k]) }
    IN  IF hits = {} THEN NoMember
        ELSE ms[CHOOSE k \in hits : \A h \in hits : k <= h]

\* An extraction that writes the matched member over a file of its name.
RECURSIVE ExtractOverwriting(_, _, _, _)
ExtractOverwriting(ms, k, dir, acc) ==
    IF k > Len(ms) THEN [ret |-> Null, xmlDir |-> dir]
    ELSE IF EndsWithXml(ms[k])
         THEN [ret |-> FamilyXml(acc),
               xmlDir |-> [dir EXCEPT ![Basename(ms[k])] = ms[k].data]]
         ELSE ExtractOverwriting(ms, k + 1, dir, acc)

\* The members loop of lines 106-115 from member k on: the first member that
\* ends in .xml is extracted unless a file of its bare name exists, and the
\* expected path is returned; with no such member the loop falls through.
RECURSIVE ExtractFrom(_, _, _, _)
ExtractFrom(ms, k, dir, acc) ==
    IF k > Len(ms) THEN [ret |-> Null, xmlDir |-> dir]
    ELSE IF EndsWithXml(ms[k])
         THEN [ret |-> FamilyXml(acc),
               xmlDir |-> IF dir[Basename(ms[k])] = Absent
                          THEN [dir EXCEPT ![Basename(ms[k])] = ms[k].data]
                          ELSE dir]
         ELSE ExtractFrom(ms, k + 1, dir, acc)

\* A size check that lets the archive at the ceiling plus one byte through.
TooLargeOffByOne(size) == size > MaxArchiveBytes + 1

\* if file_size > 30 * 1024 * 1024
TooLarge(size) == size > MaxArchiveBytes

\* The try block, lines 74-115.
TryBlock(acc, env, dir, scr) ==
    IF ~env.probe.ok
    THEN Outcome(Null, "RequestException", dir, scr, <<"HEAD">>, FALSE)
    ELSE IF TooLarge(env.probe.size)
    THEN Outcome(Null, "none", dir, scr, <<"HEAD">>, FALSE)
    ELSE IF env.download = "refused"
    THEN Outcome(Null, "RequestException", dir, scr, <<"HEAD", "GET">>, FALSE)
    ELSE IF env.download = "broken"
    THEN Outcome(Null, "RequestException", dir, scr \cup {acc}, <<"HEAD", "GET">>, TRUE)
    ELSE IF ~env.archive.readable
    THEN Outcome(Null, "ReadError", dir, scr \cup {acc}, <<"HEAD", "GET">>, TRUE)
    ELSE LET x == ExtractFrom(env.archive.members, 1, dir, acc)
         IN  Outcome(x.ret, "none", x.xmlDir, scr \cup {acc}, <<"HEAD", "GET">>, TRUE)

\* A handler for the network errors only.
ExceptRequestsOnly(o) ==
    IF o.exc = "RequestException" THEN [o EXCEPT !.ret = Null, !.exc = "none"] ELSE o

\* except Exception as e: ... return None
Except(o) ==
    IF o.exc # "none" THEN [o EXCEPT !.ret = Null, !.exc = "none"] ELSE o

\* A cleanup that runs only when a path is returned.
CleanupOnSuccessOnly(o, acc) ==
    IF o.ret = Null THEN o ELSE [o EXCEPT !.scratch = @ \ {acc}]

\* finally: os.remove(tgz_file_path) when it exists.
Finally(o, acc) == [o EXCEPT !.scratch = @ \ {acc}]

\* download_and_extract_from_url(base_url, accession_number)
DownloadAndExtract(acc, env, dir, scr) ==
    LET body == TryBlock(acc, env, dir, scr)
    IN  Finally(Except(body), acc)

\* The record of a call: what it was asked, what the servers answered, what
\* it did and what left it (ret: the value returned; exc: the exception that
\* left the call, "none" when it returned; matched: the member the members
\* loop stopped at, when the call got that far).
NoCall ==
    [made |-> FALSE, accession |-> "", probe |-> ProbeFailed, download |-> "refused",
     readable |-> FALSE, reqs |-> <<>>, created |-> FALSE, ret |-> Null,
     exc |-> "none", xmlDirBefore |-> EmptyXmlDir, matched |-> NoMember]

CallLog(acc, env, dir, o) ==
    [made |-> TRUE, accession |-> acc, probe |-> env.probe, download |-> env.download,
     readable |-> env.download = "ok" /\ env.archive.readable,
     reqs |-> o.reqs, created |-> o.created, ret |-> o.ret,
     exc |-> o.exc, xmlDirBefore |-> dir,
     matched |-> IF env.probe.ok /\ ~TooLarge(env.probe.size)
                    /\ env.download = "ok" /\ env.archive.readable
                 THEN FirstXml(env.archive.members)
                 ELSE NoMember]

\* One call of download_and_extract_from_url on the directories as they are.
Retrieve(acc, env) ==
    \E o \in {DownloadAndExtract(acc, env, xmlDir, scratch)} :
        /\ xmlDir' = o.xmlDir
        /\ scratch' = o.scratch
        /\ call' = CallLog(acc, env, xmlDir, o)

(***************************************************************************)
(* Search Crawler: scrapers/geo_scraper.py, scrape_geo                     *)
(***************************************************************************)

\* parse_qs(parsed_url.query).get("acc", ["Unknown"])[0]: parse_qs drops a
\* blank value.
AccessionOf(link) == IF link = "" THEN "Unknown" ELSE link

\* The result links a listing of n links may hold.
Listings(n) == [1..n -> Accessions \cup {""}]

\* f"{base_url}{accession_number}_family.xml.tgz" after ftp:// became https://
XmlFileUrl(acc) ==
    CASE acc = "GSE123" -> "https://ftp.ncbi.nlm.nih.gov/GSE123/GSE123_family.xml.tgz"
      [] OTHER -> "https://ftp.ncbi.nlm.nih.gov/Unknown/Unknown_family.xml.tgz"

\* A detail page: whether it answered, whether it carries the
\* "MINiML formatted family file(s)" anchor, and its labelled cells.
DetailPage(fetched, miniml) ==
    [fetched |-> fetched, miniml |-> miniml, title |-> "T", summary |-> "S"]

\* What a visit may meet: no detail page, a page with no link, or a page with
\* the link and the servers' answers to the retriever. The crawl meets the
\* archives of at most one member; SpecRetriever has the longer ones.
Visits(acc) ==
    { [page |-> DetailPage(FALSE, FALSE), env |-> RetrieverEnv(ProbeFailed, "refused", Unreadable)],
      [page |-> DetailPage(TRUE, FALSE), env |-> RetrieverEnv(ProbeFailed, "refused", Unreadable)] }
    \cup { [page |-> DetailPage(TRUE, TRUE), env |-> e] :
             e \in EnvsOver(ArchivesUpTo(acc, 1)) }

\* A branch that leaves the archive fields unset when the page has no link.
NoLinkUnset(dir, scr) ==
    [url |-> Null, path |-> Null, samples |-> <<>>,
     xmlDir |-> dir, scratch |-> scr, call |-> NoCall, parserCalled |-> FALSE,
     exc |-> "none"]

\* Lines 157-160: the page has no link.
NoLink(dir, scr) ==
    [url |-> "Not Found", path |-> "Failed", samples |-> <<>>,
     xmlDir |-> dir, scratch |-> scr, call |-> NoCall, parserCalled |-> FALSE,
     exc |-> "none"]

\* Lines 143-155: the retriever is called, and the parser when a path came
\* back.
LinkResult(acc, env, dir, o) ==
    [url |-> XmlFileUrl(acc), path |-> o.ret,
     samples |-> IF o.exc = "none" /\ o.ret # Null
                 THEN process_xml_file(Content(o.xmlDir[o.ret]))
                 ELSE <<>>,
     xmlDir |-> o.xmlDir, scratch |-> o.scratch,
     call |-> CallLog(acc, env, dir, o),
     parserCalled |-> o.exc = "none" /\ o.ret # Null,
     exc |-> o.exc]

WithLink(acc, env, dir, scr) ==
    LinkResult(acc, env, dir, DownloadAndExtract(acc, env, dir, scr))

\* base_data, lines 163-184 (the labelled cells the model carries).
BaseData(keyword, acc, page, url, path) ==
    ("Keyword" :> keyword) @@ ("Accession Number" :> acc)
    @@ ("Title" :> page.title) @@ ("Summary" :> page.summary)
    @@ ("XML File URL" :> url) @@ ("XML File Path" :> path)

\* for sample in samples_data: results.append({**base_data, **sample})
MergedRows(base, samples) ==
    [k \in 1..Len(samples) |-> samples[k] @@ base]

\* The record of a visit. exc and site: the exception that left scrape_geo and
\* the call it came from ("none": none).
NoVisit ==
    [visited |-> FALSE, accession |-> "", miniml |-> FALSE, called |-> FALSE,
     parserCalled |-> FALSE, path |-> Null, url |-> Null, samples |-> <<>>,
     rows |-> <<>>, exc |-> "none", site |-> "none"]

\* An exception leaves scrape_geo: which, and from which call.
Raise(exc, site) ==
    /\ pc' = "raised"
    /\ last' = [last EXCEPT !.exc = exc, !.site = site]

\* The loop control after a listing or a link: the next link of the listing,
\* or the next keyword's listing.
AfterLink(ls, i) ==
    IF i < Len(ls)
    THEN /\ pc' = "links" /\ li' = i + 1 /\ kw' = kw /\ links' = ls
    ELSE /\ pc' = "listing" /\ li' = 1 /\ kw' = kw + 1 /\ links' = <<>>

\* Lines 123-128: the listing of the next keyword is fetched; requests.get
\* raises when the server cannot be reached.
FetchListing(ok, ls) ==
    /\ pc = "listing"
    /\ kw <= Len(GEO_SEARCH_URLS)
    /\ IF ok
       THEN AfterLink(ls, 0) /\ listed' = listed + Len(ls) /\ UNCHANGED last
       ELSE Raise("ConnectionError", "listing") /\ UNCHANGED <<kw, links, li, listed>>
    /\ UNCHANGED <<results, xmlDir, scratch, call, files, sinkLog>>

\* A loop body that calls the sink only when the accession added a row.
FinishSkipEmpty(acc, page, a) ==
    \E rows \in {MergedRows(BaseData(GEO_SEARCH_URLS[kw], acc, page, a.url, a.path),
                            a.samples)} :
        /\ results' = results \o rows
        /\ IF rows = <<>>
           THEN UNCHANGED <<files, sinkLog, calls>>
           ELSE /\ files' = SaveToExcel(files, results \o rows)
                /\ sinkLog' = [index |-> SaveTarget(files), data |-> results \o rows,
                               before |-> files]
                /\ calls' = calls + 1
        /\ last' = [visited |-> TRUE, accession |-> acc, miniml |-> page.miniml,
                    called |-> a.call.made, parserCalled |-> a.parserCalled,
                    path |-> a.path, url |-> a.url, samples |-> a.samples,
                    rows |-> rows, exc |-> "none", site |-> "none"]
        /\ AfterLink(links, li)

\* Lines 162-192: the join, the append and the flush of the accumulated
\* results, after the archive step a of accession acc; calls counts the
\* calls of save_to_excel.
Finish(acc, page, a) ==
    \E rows \in {MergedRows(BaseData(GEO_SEARCH_URLS[kw], acc, page, a.url, a.path),
                            a.samples)} :
        /\ results' = results \o rows
        /\ files' = SaveToExcel(files, results \o rows)
        /\ sinkLog' = [index |-> SaveTarget(files), data |-> results \o rows,
                       before |-> files]
        /\ calls' = calls + 1
        /\ last' = [visited |-> TRUE, accession |-> acc, miniml |-> page.miniml,
                    called |-> a.call.made, parserCalled |-> a.parserCalled,
                    path |-> a.path, url |-> a.url, samples |-> a.samples,
                    rows |-> rows, exc |-> "none", site |-> "none"]
        /\ AfterLink(links, li)

\* Lines 129-192 for one link: the detail page, the archive, the structured
\* file, the join and the flush.
Visit(page, env) ==
    /\ pc = "links"
    /\ IF ~page.fetched
       THEN /\ Raise("ConnectionError", "detail")
            /\ UNCHANGED <<kw, links, li, results, xmlDir, scratch, call,
                           files, sinkLog, calls>>
       ELSE \E a \in { IF page.miniml
                       THEN WithLink(AccessionOf(links[li]), env, xmlDir, scratch)
                       ELSE NoLink(xmlDir, scratch) } :
                /\ xmlDir' = a.xmlDir
                /\ scratch' = a.scratch
                /\ call' = a.call
                /\ IF a.exc # "none"
                   THEN /\ Raise(a.exc, "retriever")
                        /\ UNCHANGED <<kw, links, li, results, files, sinkLog,
                                       calls>>
                   ELSE Finish(AccessionOf(links[li]), page, a)
    /\ UNCHANGED listed

\* Line 194: every keyword was crawled.
Return ==
    /\ pc = "listing"
    /\ kw > Len(GEO_SEARCH_URLS)
    /\ pc' = "returned"
    /\ UNCHANGED <<kw, links, li, results, listed, xmlDir, scratch, call, last,
                   files, sinkLog>>

(***************************************************************************)
(* Specifications                                                          *)
(***************************************************************************)
SinkIdle  == files = NoFiles /\ sinkLog = NoSinkLog(NoFiles) /\ calls = 0
XmlIdle   == doc = MissingFile /\ parsed = NotParsed
DiskIdle  == xmlDir = EmptyXmlDir /\ scratch = {} /\ call = NoCall
CrawlIdle ==
    /\ pc = "idle" /\ kw = 0 /\ links = <<>> /\ li = 0 /\ results = <<>>
    /\ listed = 0 /\ last = NoVisit

\* The sink alone: any rows, on any of the directories.
InitSink ==
    /\ files \in SinkDirs /\ sinkLog = NoSinkLog(files) /\ calls = 0
    /\ XmlIdle /\ DiskIdle /\ CrawlIdle

NextSink ==
    \E data \in FlushData :
        Save(data) /\ UNCHANGED <<xmlVars, diskVars, crawlVars>>

SpecSink == InitSink /\ [][NextSink]_vars

\* The parser alone: any structured file.
InitXml ==
    /\ doc \in Documents \cup {Malformed, MissingFile}
    /\ parsed = NotParsed
    /\ SinkIdle /\ DiskIdle /\ CrawlIdle

NextXml == Parse /\ UNCHANGED <<sinkVars, diskVars, crawlVars>>

SpecXml == InitXml /\ [][NextXml]_vars

\* The retriever alone: any calls in any order; a scratch archive may be left
\* from a run that was killed.
InitRetriever ==
    /\ xmlDir = EmptyXmlDir /\ scratch \in SUBSET Accessions /\ call = NoCall
    /\ SinkIdle /\ XmlIdle /\ CrawlIdle

NextRetriever ==
    \E acc \in Accessions \cup {"Unknown"} : \E env \in RetrieverEnvs(acc) :
        Retrieve(acc, env) /\ UNCHANGED <<sinkVars, xmlVars, crawlVars>>

SpecRetriever == InitRetriever /\ [][NextRetriever]_vars

\* The crawl: scrape_geo from its first line.
Init ==
    /\ pc = "listing" /\ kw = 1 /\ links = <<>> /\ li = 1 /\ results = <<>>
    /\ listed = 0 /\ last = NoVisit
    /\ SinkIdle /\ XmlIdle /\ DiskIdle

Next ==
    \/ \E ok \in BOOLEAN, n \in 0..(MaxVisits - listed) : \E ls \in Listings(n) :
          FetchListing(ok, ls) /\ UNCHANGED <<calls, xmlVars>>
    \/ /\ pc = "links"
       /\ \E v \in Visits(AccessionOf(links[li])) :
             Visit(v.page, v.env) /\ UNCHANGED xmlVars
    \/ Return /\ UNCHANGED <<calls, xmlVars>>

Spec == Init /\ [][Next]_vars

(***************************************************************************)
(* Search Crawler and Archive Retriever: properties (Spec)                 *)
(***************************************************************************)

\* C1: whatever external call fails, scrape_geo does not raise: no exception
\* leaves the crawl.
C1_NeverRaises == pc # "raised"

\* C2: every visited accession adds one row per sample record when it has
\* some, and exactly one row of the detail fields, with no sample field,
\* when it has none.
C2_RowsPerAccession ==
    last.visited =>
        IF last.samples # <<>>
        THEN Len(last.rows) = Len(last.samples)
        ELSE /\ Len(last.rows) = 1
             /\ last.rows[1]["Accession Number"] = last.accession
             /\ "Sample Number (ID)" \notin DOMAIN last.rows[1]

\* C4: a probed size over the 30 MB ceiling makes the call return no path
\* with no download request, no scratch archive and the extraction directory
\* as it was; the crawler then has no sample record for the accession.
C4_OversizedSkipped ==
    (last.visited /\ call.made /\ call.probe.ok
        /\ call.probe.size > 30 * 1024 * 1024) =>
        /\ call.ret = Null
        /\ call.reqs = <<"HEAD">>
        /\ ~call.created
        /\ xmlDir = call.xmlDirBefore
        /\ ~last.parserCalled
        /\ last.samples = <<>>

\* C4 witness: a visit whose probe reported one byte over the ceiling.
C4_Witness ==
    /\ last.visited /\ last.called /\ call.made /\ call.probe.ok
    /\ call.probe.size = 30 * 1024 * 1024 + 1
    /\ call.accession = last.accession

(***************************************************************************)
(* Archive Retriever: properties (SpecRetriever)                           *)
(***************************************************************************)

\* C3: once download_and_extract_from_url has returned, on whatever path, the
\* scratch archive of its accession does not exist.
C3_ScratchRemoved == call.made => call.accession \notin scratch

\* C3 witness: the archive was written to disk, could not be read, and the
\* call returned no path.
C3_Witness ==
    /\ call.made /\ call.created /\ call.download = "ok"
    /\ ~call.readable /\ call.ret = Null /\ call.exc = "none"

\* The call failed in its probe, its download or its extraction.
RetrieverFailed ==
    \/ ~call.probe.ok
    \/ call.probe.size <= 30 * 1024 * 1024 /\ call.download # "ok"
    \/ call.probe.size <= 30 * 1024 * 1024 /\ call.download = "ok" /\ ~call.readable

\* C5: no exception leaves download_and_extract_from_url, and a call whose
\* probe, download or extraction failed returns None.
C5_FailuresBecomeNone ==
    call.made =>
        /\ call.exc = "none"
        /\ RetrieverFailed => call.ret = Null

\* C5 witness: the probe answered, the download broke off after the scratch
\* archive was opened, and the call returned None.
C5_Witness ==
    /\ call.made /\ call.probe.ok /\ call.download = "broken"
    /\ call.created /\ call.ret = Null /\ call.exc = "none"

(***************************************************************************)
(* Tabular Sink: properties (SpecSink)                                     *)
(***************************************************************************)

\* C6, as stated: the file a save_to_excel call has written is never larger
\* than the 50 MB threshold.
C6_WrittenFileWithinThreshold ==
    sinkLog.index # 0 => GetSize(files, sinkLog.index) <= 50 * 1024 * 1024

\* C6, amended: save_to_excel writes only to a file that did not exist or was
\* within the threshold before the call, and leaves every file that was
\* already larger than the threshold as it was.
C6_OversizedNeverWritten ==
    sinkLog.index # 0 =>
        /\ \/ ~Exists(sinkLog.before, sinkLog.index)
           \/ GetSize(sinkLog.before, sinkLog.index) <= 50 * 1024 * 1024
        /\ \A j \in DOMAIN files :
              (Exists(sinkLog.before, j)
                 /\ GetSize(sinkLog.before, j) > 50 * 1024 * 1024)
              => files[j] = sinkLog.before[j]

\* C6 witness: a flush to a file within the threshold left it larger than
\* the threshold.
C6_Witness ==
    /\ sinkLog.index # 0
    /\ Exists(sinkLog.before, sinkLog.index)
    /\ GetSize(sinkLog.before, sinkLog.index) <= 50 * 1024 * 1024
    /\ GetSize(files, sinkLog.index) > 50 * 1024 * 1024

\* C7: the call writes to the smallest index whose file does not exist or is
\* within the threshold, the scan ends within the existing files plus one,
\* and every other file is left as it was.
C7_SmallestCandidate ==
    sinkLog.index # 0 =>
        LET i == sinkLog.index
            b == sinkLog.before
        IN  /\ ~Exists(b, i) \/ GetSize(b, i) <= 50 * 1024 * 1024
            /\ \A j \in 1..(i - 1) :
                  Exists(b, j) /\ GetSize(b, j) > 50 * 1024 * 1024
            /\ i <= Cardinality({ j \in DOMAIN b : Exists(b, j) }) + 1
            /\ Exists(files, i)
            /\ \A j \in DOMAIN files : j # i => files[j] = b[j]

\* C7 witness: the first file was over the threshold and the call wrote to a
\* second file that already existed.
C7_Witness ==
    /\ sinkLog.index = 2
    /\ Exists(sinkLog.before, 2)
    /\ GetSize(sinkLog.before, 1) > 50 * 1024 * 1024

\* The cell of row k of frame f in column c is empty.
NullAt(f, k, c) == c \notin f.cols \/ f.rows[k][c] = Null

\* C8: after a call the target file has every declared column, and a declared
\* column that neither a row of the call nor a row already in the file
\* supplies is null in every row.
C8_DeclaredColumnsKept ==
    sinkLog.index # 0 =>
        LET f   == files[sinkLog.index]
            old == sinkLog.before[sinkLog.index]
        IN  /\ columns \subseteq f.cols
            /\ \A c \in columns :
                  ( /\ \A k \in 1..Len(sinkLog.data) : c \notin DOMAIN sinkLog.data[k]
                    /\ \A k \in 1..Len(old.rows) : NullAt(old, k, c) )
                  => \A k \in 1..Len(f.rows) : f.rows[k][c] = Null

\* C8 witness: rows lacking declared columns were appended to a file whose
\* header lacked declared columns.
C8_Witness ==
    /\ sinkLog.index # 0
    /\ Exists(sinkLog.before, sinkLog.index)
    /\ ~(columns \subseteq sinkLog.before[sinkLog.index].cols)
    /\ Len(sinkLog.data) > 0
    /\ "Organism" \notin DOMAIN sinkLog.data[1]
    /\ Len(files[sinkLog.index].rows) > Len(sinkLog.before[sinkLog.index].rows)

(***************************************************************************)
(* Sample Parser: properties (SpecXml)                                     *)
(***************************************************************************)

\* The Sample elements of a structured file, in document order.
SamplesOf(f) == SelectSeq(f.nodes, LAMBDA n : n.el.tag = "Sample")

\* Sample element i has a Characteristics descendant tagged name, whatever
\* the case of the tag.
HasCharacteristic(d, i, name) ==
    \E j \in (i + 1)..Len(d) :
        /\ \A m \in (i + 1)..j : d[m].depth > d[i].depth
        /\ d[j].el.tag = "Characteristics"
        /\ d[j].el.ctag \in
             (IF name = "tissue" THEN {"tissue", "Tissue"} ELSE {"cell line", "Cell Line"})

\* The position in the file of its k-th Sample element.
RECURSIVE NthSample(_, _, _)
NthSample(d, k, from) ==
    IF d[from].el.tag = "Sample"
    THEN IF k = 1 THEN from ELSE NthSample(d, k - 1, from + 1)
    ELSE NthSample(d, k, from + 1)

\* C9: the record of a Sample element with no Characteristics tagged "tissue"
\* has Tissue = "Not Available", and likewise "Cell line".
C9_AbsentIsNotAvailable ==
    (parsed.done /\ doc.wellFormed) =>
        \A k \in 1..Len(parsed.out) :
            LET i == NthSample(doc.nodes, k, 1)
            IN  /\ ~HasCharacteristic(doc.nodes, i, "tissue")
                     => parsed.out[k]["Tissue"] = "Not Available"
                /\ ~HasCharacteristic(doc.nodes, i, "cell line")
                     => parsed.out[k]["Cell line"] = "Not Available"

\* C10: a well-formed file with n Sample elements, at any depth, gives n
\* records, the i-th with the iid of the i-th Sample element in document
\* order, or "Not Available" when it has none.
C10_OneRecordPerSample ==
    (parsed.done /\ doc.wellFormed) =>
        /\ Len(parsed.out) = Len(SamplesOf(doc))
        /\ \A k \in 1..Len(parsed.out) :
              parsed.out[k]["Sample Number (ID)"] =
                  IF SamplesOf(doc)[k].el.iid = Null
                  THEN "Not Available"
                  ELSE SamplesOf(doc)[k].el.iid

\* C10 witness: three Sample elements, one nested in another and one with no
\* iid, gave three records.
C10_Witness ==
    /\ parsed.done /\ doc.wellFormed
    /\ Len(parsed.out) = 3
    /\ \E k \in 1..Len(doc.nodes) :
          doc.nodes[k].el.tag = "Sample" /\ doc.nodes[k].depth = 2
    /\ \E k \in 1..3 : parsed.out[k]["Sample Number (ID)"] = "Not Available"
    /\ parsed.out[1]["Sample Number (ID)"] = "GSM2"


\* C11: on a file that is missing or not well-formed, process_xml_file
\* returns the empty sequence and no exception leaves it.
C11_MalformedYieldsEmpty ==
    (parsed.done /\ (~doc.exists \/ ~doc.wellFormed)) =>
        /\ parsed.out = <<>>
        /\ parsed.exc = "none"

\* C11 witness: the parser has returned from a file that does not exist.
C11_Witness ==
    /\ parsed.done /\ ~doc.exists /\ parsed.out = <<>> /\ parsed.exc = "none"


\* C12: the matched member is written into the extraction directory only
\* when no file of its bare name was there, and every file that was in the
\* directory before the call has the same content after it.
C12_ExistingFilesKept ==
    call.made =>
        /\ \A n \in XmlNames :
              call.xmlDirBefore[n] # Absent => xmlDir[n] = call.xmlDirBefore[n]
        /\ \A n \in XmlNames :
              xmlDir[n] # call.xmlDirBefore[n] =>
                 /\ call.matched # NoMember
                 /\ n = Basename(call.matched)
                 /\ xmlDir[n] = call.matched.data

\* C12 witness: the matched member lay under a directory of the archive, a
\* file of its bare name and of another content was in the extraction
\* directory, and the call returned a path.
C12_Witness ==
    /\ call.made /\ call.ret # Null
    /\ call.matched # NoMember /\ call.matched.dir # ""
    /\ call.xmlDirBefore[Basename(call.matched)] # Absent
    /\ call.xmlDirBefore[Basename(call.matched)] # call.matched.data
    /\ xmlDir = call.xmlDirBefore



\* C13: for an accession whose detail page has no "MINiML formatted family
\* file(s)" link the crawler calls neither the retriever nor the parser, and
\* holds "Not Found" as the archive URL, "Failed" as the archive path and
\* the empty sequence of sample records.
C13_NoLinkSentinels ==
    (last.visited /\ ~last.miniml) =>
        /\ ~last.called /\ ~call.made
        /\ ~last.parserCalled
        /\ last.url = "Not Found"
        /\ last.path = "Failed"
        /\ last.samples = <<>>

\* C13 witness: a page without the link was visited after an earlier
\* accession had left its family file in the extraction directory.
C13_Witness ==
    /\ last.visited /\ ~last.miniml /\ last.exc = "none"
    /\ last.url = "Not Found"
    /\ \E n \in XmlNames : xmlDir[n] # Absent



\* The accessions processed so far: the links of the earlier listings and
\* those of the current listing before the link at hand.
Processed == listed - Len(links) + li - 1

\* The row is among the data rows of some output file.
Stored(row) ==
    \E i \in DOMAIN files :
        /\ Exists(files, i)
        /\ \E j \in 1..Len(files[i].rows) :
              files[i].rows[j] = Widen(row, files[i].cols)

\* C14: at every point of the crawl, and so before every fetch of a detail
\* page, save_to_excel has been called exactly once per accession processed,
\* those that added no row included, and every row produced so far is in
\* the output.
C14_FlushPerAccession ==
    /\ calls = Processed
    /\ \A k \in 1..Len(results) : Stored(results[k])

\* C14 witness: the second accession added no row, the sink was called for
\* it as well, and the crawl stands before the next detail page.
C14_Witness ==
    /\ pc = "links" /\ last.visited /\ last.rows = <<>>
    /\ results # <<>> /\ calls = 2 /\ Processed = 2



\* The number of data rows in the output files 1..i.
RECURSIVE RowsUpTo(_)
RowsUpTo(i) ==
    IF i = 0 THEN 0
    ELSE RowsUpTo(i - 1) + (IF Exists(files, i) THEN Len(files[i].rows) ELSE 0)

\* C15: in a crawl that started with no output file, once the accessions
\* processed so far are flushed the data rows of all output files together
\* are as many as the rows the crawler has produced: every row is stored
\* exactly once.
C15_EveryRowStoredOnce ==
    RowsUpTo(Len(files)) = Len(results)



\* C16: whenever download_and_extract_from_url returns a path, a file exists
\* at that path in the extraction directory, whatever the archive held and
\* whatever was in the directory before.
C16_ReturnedPathExists ==
    (call.made /\ call.ret # Null) => xmlDir[call.ret] # Absent


====
